---- MODULE Spec2Model ----
(***************************************************************************)
(* art_dice: exact probability tables of pools of symbol dice.             *)
(*                                                                         *)
(* A caller builds a RollProbabilities table from a pool of dice and a     *)
(* collection policy (RollProbabilities::new), then queries it with        *)
(* get_odds and roll_against.  Values are modelled as follows:             *)
(*   DieSymbol             its name, a string                              *)
(*   DieSide               the sequence of its symbols                     *)
(*   Die                   the sequence of its sides                       *)
(*   ItemCounter           a function from the keys of `items` to counts   *)
(*   RollResultPossibility a record [symbols |-> ItemCounter]              *)
(*   HashMap<K, usize>     a function whose DOMAIN is the key set          *)
(*   f64 quotient a / b    the fraction a / b in lowest terms              *)
(***************************************************************************)
EXTENDS Integers, Sequences, FiniteSets, TLC

VARIABLES
    dice,      \* the caller's dice pool handed to RollProbabilities::new
    policy,    \* the caller's RollCollectionPolicy handed to new
    table,     \* the RollProbabilities the caller holds, or NoTable
    call,      \* the last call made: its name and remaining arguments
    ret,       \* what the last call returned (or that it panicked)
    counters,  \* two ItemCounters a caller holds, "a" and "b"
    ops,       \* the add / add_amount calls each of the two has received
    cart,      \* the MultiCartesianProduct a caller holds, once constructed
    yielded,   \* what the calls of its next() returned, in call order
    symbol_calls, \* the calls of DieSymbol::new made: argument and result
    die_call   \* the last call that makes a Die: its name, argument, result

\* the variables of the caller of RollProbabilities
rollVars == <<dice, policy, table, call, ret>>

\* the variables of the callers of the other types of the crate
counterVars == <<counters, ops>>
cartVars == <<cart, yielded>>
diceVars == <<symbol_calls, die_call>>

vars == <<rollVars, counterVars, cartVars, diceVars>>

----------------------------------------------------------------------------
(* Bounds of the model                                                     *)

\* Largest number of dice in a pool
MaxDice == 2

\* Largest amount of a RollTarget
MaxAmount == 2

\* Largest number of dice in the pool of the table rolled against
MaxOtherDice == 1

\* Largest number of add / add_amount calls one ItemCounter receives
MaxOps == 2

\* Largest amount handed to ItemCounter::add_amount
MaxAddAmount == 1

\* Largest number of sequences handed to MultiCartesianProduct::new
MaxSets == 3

\* Largest length of one of those sequences
MaxSetLen == 3

\* Largest number of calls of next() that return None
MaxNones == 2

\* Largest of the three counts handed to RollCompareResult::new
MaxCount == 2

\* Largest number of characters of a string handed to DieSymbol::new
MaxNameLen == 3

\* Largest number of sides handed to Die::new
MaxSides == 3

----------------------------------------------------------------------------
(* usize arithmetic                                                        *)

\* usize values wrap at 2^64 in the source; the model wraps at 2^30, far above
\* every length it compares with (TLC's integers are 32 bits wide).
UsizeModulus == 2^30

\* a - b on usize: with overflow checks (debug profile) an underflow panics,
\* without them (release profile) it wraps.
usize_sub(a, b, overflow_checks) ==
    IF a >= b THEN [panic |-> FALSE, value |-> a - b]
    ELSE IF overflow_checks THEN [panic |-> TRUE, value |-> 0]
    ELSE [panic |-> FALSE, value |-> UsizeModulus - (b - a)]

----------------------------------------------------------------------------
(* Generic sequence helpers used by the iterator chains                    *)

Take_nothing_beyond_len(seq, n) ==
    IF n > Len(seq) THEN <<>> ELSE SubSeq(seq, 1, n)

\* Iterator::take(n)
Take(seq, n) == IF n >= Len(seq) THEN seq ELSE SubSeq(seq, 1, n)

\* Iterator::skip(n)
Skip(seq, n) == IF n >= Len(seq) THEN <<>> ELSE SubSeq(seq, n + 1, Len(seq))

Flatten_first_only(seqs) == IF seqs = <<>> THEN <<>> ELSE Head(seqs)

\* Iterator::flatten over a sequence of sequences
RECURSIVE Flatten(_)
Flatten(seqs) ==
    IF seqs = <<>> THEN <<>>
    ELSE Head(seqs) \o Flatten(Tail(seqs))

\* Vec::reverse
Reverse(seq) == [i \in 1..Len(seq) |-> seq[Len(seq) + 1 - i]]

\* slice.contains(x)
Contains(seq, x) == \E i \in 1..Len(seq) : seq[i] = x

RECURSIVE InsertByLen_before_equals(_, _)
InsertByLen_before_equals(sorted, x) ==
    IF sorted = <<>> THEN <<x>>
    ELSE IF Len(Head(sorted)) < Len(x)
         THEN <<Head(sorted)>> \o InsertByLen_before_equals(Tail(sorted), x)
         ELSE <<x>> \o sorted

\* Insert x into a sequence sorted ascending by length, after every element
\* that is not longer than x (what a stable sort does with equal elements).
RECURSIVE InsertByLen(_, _)
InsertByLen(sorted, x) ==
    IF sorted = <<>> THEN <<x>>
    ELSE IF Len(Head(sorted)) <= Len(x)
         THEN <<Head(sorted)>> \o InsertByLen(Tail(sorted), x)
         ELSE <<x>> \o sorted

\* sort_by(|x, y| x.len().cmp(&y.len())): stable, ascending by length
RECURSIVE SortByLen(_)
SortByLen(seq) ==
    IF seq = <<>> THEN <<>>
    ELSE InsertByLen(SortByLen(SubSeq(seq, 1, Len(seq) - 1)), seq[Len(seq)])

----------------------------------------------------------------------------
(* Dice                                                                    *)

pip == "Pip"

side_of_n_symbols(n, symbol) == [i \in 1..n |-> symbol]

n_sided_die_from_zero(n) == [i \in 1..n |-> side_of_n_symbols(i - 1, pip)]

\* n_sided_die(n): sides of 1, 2, ..., n pips, put into a Die directly
n_sided_die(n) == [i \in 1..n |-> side_of_n_symbols(i, pip)]

d4 == n_sided_die(4)

d6 == n_sided_die(6)

d8 == n_sided_die(8)

d10 == n_sided_die(10)

d12 == n_sided_die(12)

d20 == n_sided_die(20)

\* the custom die of the test two_custom_d4_multiple_targets
custom_d4 == << <<"A">>, <<"B">>, <<"A", "B">>, <<>> >>

----------------------------------------------------------------------------
(* ItemCounter                                                             *)

ItemCounter_new == [x \in {} |-> 0]

add_amount_overwrites(items, item, amount) ==
    [x \in (DOMAIN items) \cup {item} |->
        IF x = item THEN amount ELSE items[x]]

add_amount(items, item, amount) ==
    IF item \in DOMAIN items
    THEN [items EXCEPT ![item] = @ + amount]
    ELSE [x \in (DOMAIN items) \cup {item} |->
            IF x = item THEN amount ELSE items[x]]

add_twice(items, item) == add_amount(items, item, 2)

add(items, item) == add_amount(items, item, 1)

get_count(items, item) ==
    IF item \in DOMAIN items THEN items[item] ELSE 0

\* The names of the model's symbols in the order of DieSymbol's derived Ord,
\* which compares the names as strings.
OrdOfNames == <<"A", "B", "Pip">>

ord(item) == CHOOSE i \in DOMAIN OrdOfNames : OrdOfNames[i] = item

\* self.items.keys() collected and sorted
RECURSIVE sorted_keys(_)
sorted_keys(keys) ==
    IF keys = {} THEN <<>>
    ELSE LET least == CHOOSE x \in keys : \A y \in keys : ord(x) <= ord(y)
         IN  <<least>> \o sorted_keys(keys \ {least})

\* impl Hash for ItemCounter: each key in sorted order is fed to the hasher as
\* many times as its count.  The hash is a function of what the hasher is
\* fed, so it is modelled as that sequence of items.
hash(items) ==
    LET keys == sorted_keys(DOMAIN items)
    IN  Flatten([i \in 1..Len(keys) |->
                    [c \in 1..items[keys[i]] |-> keys[i]]])

\* ItemCounter::total_count is called by the source but its body is not part
\* of it: the sum of all counts.
RECURSIVE sum_counts(_, _)
sum_counts(items, keys) ==
    IF keys = {} THEN 0
    ELSE LET x == CHOOSE y \in keys : TRUE
         IN  items[x] + sum_counts(items, keys \ {x})

total_count(items) == sum_counts(items, DOMAIN items)

----------------------------------------------------------------------------
(* RollResultPossibility                                                   *)

RollResultPossibility_new == [symbols |-> ItemCounter_new]

\* add every symbol of the slice, in order, to a copy of the counter
RECURSIVE add_symbols(_, _)
add_symbols(poss, symbols) ==
    IF symbols = <<>> THEN poss
    ELSE add_symbols([symbols |-> add(poss.symbols, Head(symbols))],
                     Tail(symbols))

poss_total_count(poss) == total_count(poss.symbols)

----------------------------------------------------------------------------
(* RollTarget and RollCollectionPolicy                                     *)

exactly_n_of(n, symbols) ==
    [target_type |-> "Exactly", amount |-> n, symbols |-> symbols]

at_least_n_of(n, symbols) ==
    [target_type |-> "AtLeast", amount |-> n, symbols |-> symbols]

at_most_n_of(n, symbols) ==
    [target_type |-> "AtMost", amount |-> n, symbols |-> symbols]

\* CollectAll carries no N; the record keeps the field with 0 in it.
collect_all(symbols) ==
    [coll_type |-> "CollectAll", n |-> 0, symbols |-> symbols]

take_highest_n_of(n, symbols) ==
    [coll_type |-> "TakeHighestN", n |-> n, symbols |-> symbols]

take_lowest_n_of(n, symbols) ==
    [coll_type |-> "TakeLowestN", n |-> n, symbols |-> symbols]

remove_highest_n_of(n, symbols) ==
    [coll_type |-> "RemoveHighestN", n |-> n, symbols |-> symbols]

remove_lowest_n_of(n, symbols) ==
    [coll_type |-> "RemoveLowestN", n |-> n, symbols |-> symbols]

----------------------------------------------------------------------------
(* RollProbabilities::collect_symbols                                      *)

filter_sides_keeps_all(roll, pol) == roll

\* each rolled side reduced to the symbols the policy names, in side order
filter_sides(roll, pol) ==
    [i \in 1..Len(roll) |->
        SelectSeq(roll[i], LAMBDA y : Contains(pol.symbols, y))]

\* rank_sides without the reverse: ascending
rank_sides_ascending(filtered_sides) == SortByLen(filtered_sides)

\* sorted ascending by number of symbols (stable), then reversed
rank_sides(filtered_sides) == Reverse(SortByLen(filtered_sides))

\* select_sides with RemoveLowestN taking n sides instead of sides_len - n
select_sides_remove_takes_n(ranked, pol, overflow_checks) ==
    LET sides_len == Len(ranked)
        n == pol.n
        k == usize_sub(sides_len, n, overflow_checks)
    IN  CASE pol.coll_type = "CollectAll" ->
                [panic |-> FALSE, sides |-> ranked]
          [] pol.coll_type = "TakeHighestN" ->
                [panic |-> FALSE, sides |-> Take(ranked, n)]
          [] pol.coll_type = "TakeLowestN" ->
                [panic |-> k.panic,
                 sides |-> IF k.panic THEN <<>> ELSE Skip(ranked, k.value)]
          [] pol.coll_type = "RemoveHighestN" ->
                [panic |-> FALSE, sides |-> Skip(ranked, n)]
          [] pol.coll_type = "RemoveLowestN" ->
                [panic |-> FALSE, sides |-> Take(ranked, n)]

\* the sides the policy keeps; panic is TRUE when sides_len - n underflows
\* under overflow checks
select_sides(ranked, pol, overflow_checks) ==
    LET sides_len == Len(ranked)
        n == pol.n
        k == usize_sub(sides_len, n, overflow_checks)
    IN  CASE pol.coll_type = "CollectAll" ->
                [panic |-> FALSE, sides |-> ranked]
          [] pol.coll_type = "TakeHighestN" ->
                [panic |-> FALSE, sides |-> Take(ranked, n)]
          [] pol.coll_type = "TakeLowestN" ->
                [panic |-> k.panic,
                 sides |-> IF k.panic THEN <<>> ELSE Skip(ranked, k.value)]
          [] pol.coll_type = "RemoveHighestN" ->
                [panic |-> FALSE, sides |-> Skip(ranked, n)]
          [] pol.coll_type = "RemoveLowestN" ->
                [panic |-> k.panic,
                 sides |-> IF k.panic THEN <<>> ELSE Take(ranked, k.value)]

collect_symbols(roll, pol, overflow_checks) ==
    LET selected ==
            select_sides(rank_sides(filter_sides(roll, pol)), pol,
                         overflow_checks)
    IN  [panic |-> selected.panic, symbols |-> Flatten(selected.sides)]

----------------------------------------------------------------------------
(* RollProbabilities::new                                                  *)

\* count_roll with the key inserted with 1 whether or not it is present
count_roll_always_insert(occur, roll, pol, overflow_checks) ==
    LET collected == collect_symbols(roll, pol, overflow_checks)
        new_poss == add_symbols(RollResultPossibility_new, collected.symbols)
    IN  IF collected.panic
        THEN [panic |-> TRUE, map |-> occur.map]
        ELSE [panic |-> FALSE,
              map |-> [x \in (DOMAIN occur.map) \cup {new_poss} |->
                          IF x = new_poss THEN 1 ELSE occur.map[x]]]

\* the body of the loop over the joint rolls: count the roll under its key
\* (a panic in collect_symbols leaves the loop)
count_roll(occur, roll, pol, overflow_checks) ==
    LET collected == collect_symbols(roll, pol, overflow_checks)
        new_poss == add_symbols(RollResultPossibility_new, collected.symbols)
    IN  IF collected.panic
        THEN [panic |-> TRUE, map |-> occur.map]
        ELSE [panic |-> FALSE,
              map |-> IF new_poss \in DOMAIN occur.map
                      THEN [occur.map EXCEPT ![new_poss] = @ + 1]
                      ELSE [x \in (DOMAIN occur.map) \cup {new_poss} |->
                              IF x = new_poss THEN 1 ELSE occur.map[x]]]

RECURSIVE for_each_roll_skips_a_side(_, _, _, _, _, _)
for_each_roll_skips_a_side(ds, pol, overflow_checks, roll, j, occur) ==
    IF Len(roll) = Len(ds)
    THEN count_roll(occur, roll, pol, overflow_checks)
    ELSE IF j > Len(ds[Len(roll) + 1]) \/ (roll = <<>> /\ j = Len(ds[1]))
    THEN occur
    ELSE LET after == for_each_roll_skips_a_side(
                            ds, pol, overflow_checks,
                            Append(roll, ds[Len(roll) + 1][j]), 1, occur)
         IN  IF after.panic THEN after
             ELSE for_each_roll_skips_a_side(ds, pol, overflow_checks, roll,
                                             j + 1, after)

\* the loop over itertools' multi_cartesian_product of the dice's sides: one
\* side per die, the last die's side varying fastest.  roll holds the sides
\* picked for the dice before die Len(roll) + 1, j is the next side of that die.
RECURSIVE for_each_roll(_, _, _, _, _, _)
for_each_roll(ds, pol, overflow_checks, roll, j, occur) ==
    IF Len(roll) = Len(ds)
    THEN count_roll(occur, roll, pol, overflow_checks)
    ELSE IF j > Len(ds[Len(roll) + 1])
    THEN occur
    ELSE LET after == for_each_roll(ds, pol, overflow_checks,
                                    Append(roll, ds[Len(roll) + 1][j]), 1,
                                    occur)
         IN  IF after.panic THEN after
             ELSE for_each_roll(ds, pol, overflow_checks, roll, j + 1, after)

\* the sum of the values of the map's entries with their key in keys
RECURSIVE sum_entries(_, _)
sum_entries(map, keys) ==
    IF keys = {} THEN 0
    ELSE LET x == CHOOSE y \in keys : TRUE
         IN  map[x] + sum_entries(map, keys \ {x})

\* the number of keys in place of the sum of the counts
sum_values_counts_keys(map) == Cardinality(DOMAIN map)

\* occur.values().sum()
sum_values(map) == sum_entries(map, DOMAIN map)

HashMap_new == [x \in {} |-> 0]

\* RollProbabilities::new without the check for an empty slice
RollProbabilities_new_unchecked(ds, pol, overflow_checks) ==
    LET occur == for_each_roll(ds, pol, overflow_checks, <<>>, 1,
                               [panic |-> FALSE, map |-> HashMap_new])
    IN  IF occur.panic
        THEN [kind |-> "Panic", value |-> <<>>,
              msg |-> "attempt to subtract with overflow"]
        ELSE [kind |-> "Ok",
              value |-> <<[occurrences |-> occur.map,
                           total |-> sum_values(occur.map)]>>,
              msg |-> ""]

\* the outcome of RollProbabilities::new(dice, policy): Err with its message,
\* a panic with its message, or Ok with the table in value
RollProbabilities_new(ds, pol, overflow_checks) ==
    IF Len(ds) = 0
    THEN [kind |-> "Err", value |-> <<>>,
          msg |-> "must include at least one die"]
    ELSE LET occur == for_each_roll(ds, pol, overflow_checks, <<>>, 1,
                                    [panic |-> FALSE, map |-> HashMap_new])
         IN  IF occur.panic
             THEN [kind |-> "Panic", value |-> <<>>,
                   msg |-> "attempt to subtract with overflow"]
             ELSE [kind |-> "Ok",
                   value |-> <<[occurrences |-> occur.map,
                                total |-> sum_values(occur.map)]>>,
                   msg |-> ""]

----------------------------------------------------------------------------
(* f64 quotients                                                           *)

RECURSIVE gcd(_, _)
gcd(a, b) == IF b = 0 THEN a ELSE gcd(b, a % b)

\* (a as f64) / (b as f64) for b > 0: the counts of the model are far below
\* 2^53, so the quotient is the correctly rounded value of the fraction a / b,
\* and two quotients are equal exactly when their fractions are.  The value is
\* kept as the fraction in lowest terms.
\* A zero divisor gives no fraction: 0.0 / 0.0 is NaN, and a positive count
\* over 0.0 is +infinity.
f64_div(a, b) ==
    IF b = 0
    THEN [num |-> IF a = 0 THEN 0 ELSE 1, den |-> 0]
    ELSE LET g == gcd(a, b) IN [num |-> a \div g, den |-> b \div g]

\* the literal 0.0
f64_zero == [num |-> 0, den |-> 1]

----------------------------------------------------------------------------
(* RollProbabilities::get_odds                                             *)

\* each distinct symbol of the target counted once
target_count_of_distinct(poss, symbols) ==
    LET listed == {symbols[i] : i \in 1..Len(symbols)}
        RECURSIVE sum_of(_)
        sum_of(S) ==
            IF S = {} THEN 0
            ELSE LET x == CHOOSE y \in S : TRUE
                 IN  get_count(poss.symbols, x) + sum_of(S \ {x})
    IN  sum_of(listed)

\* count += poss.symbols.get_count(&symbol) for each entry of target.symbols
RECURSIVE target_count(_, _)
target_count(poss, symbols) ==
    IF symbols = <<>> THEN 0
    ELSE get_count(poss.symbols, Head(symbols))
         + target_count(poss, Tail(symbols))

\* target_matches with Exactly compared as AtLeast
target_matches_exactly_as_at_least(poss, target) ==
    LET count == target_count(poss, target.symbols)
    IN  CASE target.target_type = "Exactly" -> count >= target.amount
          [] target.target_type = "AtLeast" -> count >= target.amount
          [] target.target_type = "AtMost" -> count <= target.amount

target_matches(poss, target) ==
    LET count == target_count(poss, target.symbols)
    IN  CASE target.target_type = "Exactly" -> count = target.amount
          [] target.target_type = "AtLeast" -> count >= target.amount
          [] target.target_type = "AtMost" -> count <= target.amount

\* targets_cond with cond = (target matches): the last target decides
RECURSIVE targets_cond_last_wins(_, _, _)
targets_cond_last_wins(poss, targets, cond) ==
    IF targets = <<>> THEN cond
    ELSE targets_cond_last_wins(poss, Tail(targets),
                                target_matches(poss, Head(targets)))

\* the loop over the targets: cond = cond & (target matches), from cond
RECURSIVE targets_cond(_, _, _)
targets_cond(poss, targets, cond) ==
    IF targets = <<>> THEN cond
    ELSE targets_cond(poss, Tail(targets),
                      cond /\ target_matches(poss, Head(targets)))

\* total_occurrences adding 1 for a matching key instead of its occurrences
RECURSIVE total_occurrences_counts_keys(_, _, _)
total_occurrences_counts_keys(occurrences, keys, targets) ==
    IF keys = {} THEN 0
    ELSE LET poss == CHOOSE k \in keys : TRUE
         IN  (IF targets_cond(poss, targets, TRUE) THEN 1 ELSE 0)
             + total_occurrences_counts_keys(occurrences, keys \ {poss},
                                             targets)

\* the loop over self.occurrences.keys(), adding up the matching occurrences
RECURSIVE total_occurrences(_, _, _)
total_occurrences(occurrences, keys, targets) ==
    IF keys = {} THEN 0
    ELSE LET poss == CHOOSE k \in keys : TRUE
         IN  (IF targets_cond(poss, targets, TRUE)
              THEN occurrences[poss] ELSE 0)
             + total_occurrences(occurrences, keys \ {poss}, targets)

get_odds_unguarded(self, targets) ==
    f64_div(total_occurrences(self.occurrences,
                              DOMAIN self.occurrences, targets),
            self.total)

get_odds(self, targets) ==
    IF self.total = 0 THEN f64_zero
    ELSE f64_div(total_occurrences(self.occurrences,
                                   DOMAIN self.occurrences, targets),
                 self.total)

----------------------------------------------------------------------------
(* RollProbabilities::roll_against and RollCompareResult                   *)

RollCompareResult_new_without_losses(wins, ties, losses) ==
    [wins |-> wins, ties |-> ties, losses |-> losses,
     total |-> wins + ties]

RollCompareResult_new(wins, ties, losses) ==
    [wins |-> wins, ties |-> ties, losses |-> losses,
     total |-> wins + ties + losses]

\* compare_pair weighting a pair by the sum of the two occurrence counts
compare_pair_adds_counts(this_key, this_n, other_key, other_n) ==
    LET this_val == poss_total_count(this_key)
        other_val == poss_total_count(other_key)
        occurrences == this_n + other_n
    IN  IF this_val > other_val THEN <<occurrences, 0, 0>>
        ELSE IF this_val = other_val THEN <<0, occurrences, 0>>
        ELSE <<0, 0, occurrences>>

\* the closure mapped over each pair (this_poss, other_poss)
compare_pair(this_key, this_n, other_key, other_n) ==
    LET this_val == poss_total_count(this_key)
        other_val == poss_total_count(other_key)
        occurrences == this_n * other_n
    IN  IF this_val > other_val THEN <<occurrences, 0, 0>>
        ELSE IF this_val = other_val THEN <<0, occurrences, 0>>
        ELSE <<0, 0, occurrences>>

\* |(x, y, z), (i, j, k)| (x + i, y + j, z + k)
add_triples(a, b) == <<a[1] + b[1], a[2] + b[2], a[3] + b[3]>>

\* fold_other leaving out one entry of other
RECURSIVE fold_other_skips_one(_, _, _, _)
fold_other_skips_one(this_key, this_n, other_occ, other_keys) ==
    IF Cardinality(other_keys) <= 1 THEN <<0, 0, 0>>
    ELSE LET k == CHOOSE x \in other_keys : TRUE
         IN  add_triples(
                 fold_other_skips_one(this_key, this_n, other_occ,
                                      other_keys \ {k}),
                 compare_pair(this_key, this_n, k, other_occ[k]))

\* the triples of one entry of self against every entry of other, added up
RECURSIVE fold_other(_, _, _, _)
fold_other(this_key, this_n, other_occ, other_keys) ==
    IF other_keys = {} THEN <<0, 0, 0>>
    ELSE LET k == CHOOSE x \in other_keys : TRUE
         IN  add_triples(
                 fold_other(this_key, this_n, other_occ, other_keys \ {k}),
                 compare_pair(this_key, this_n, k, other_occ[k]))

\* the triples of the cartesian product of the two tables' entries, added up
RECURSIVE fold_pairs(_, _, _)
fold_pairs(self_occ, self_keys, other_occ) ==
    IF self_keys = {} THEN <<0, 0, 0>>
    ELSE LET k == CHOOSE x \in self_keys : TRUE
         IN  add_triples(
                 fold_pairs(self_occ, self_keys \ {k}, other_occ),
                 fold_other(k, self_occ[k], other_occ, DOMAIN other_occ))

roll_against_ties_as_wins(self, other) ==
    LET sums == fold_pairs(self.occurrences, DOMAIN self.occurrences,
                           other.occurrences)
    IN  RollCompareResult_new(sums[1] + sums[2], 0, sums[3])

roll_against(self, other) ==
    LET sums == fold_pairs(self.occurrences, DOMAIN self.occurrences,
                           other.occurrences)
    IN  RollCompareResult_new(sums[1], sums[2], sums[3])

win_odds(c) == IF c.total = 0 THEN f64_zero ELSE f64_div(c.wins, c.total)

tie_odds(c) == IF c.total = 0 THEN f64_zero ELSE f64_div(c.ties, c.total)

loss_odds(c) == IF c.total = 0 THEN f64_zero ELSE f64_div(c.losses, c.total)

----------------------------------------------------------------------------
(* Inputs of the calls                                                     *)

Library == {d4, custom_d4}

Pools == UNION {[1..len -> Library] : len \in 0..MaxDice}

\* the symbol slices of the policies; <<pip, "A">> names symbols of both dice
\* of the library, so that sides of different dice tie
PolicySymbols == {<<pip>>, <<"A">>, <<"A", "B">>, <<pip, "A">>}

\* N ranges one past the largest pool, so that N > number of dice happens
Policies ==
    {collect_all(s) : s \in PolicySymbols}
    \cup {take_highest_n_of(n, s) : n \in 0..(MaxDice + 1), s \in PolicySymbols}
    \cup {take_lowest_n_of(n, s) : n \in 0..(MaxDice + 1), s \in PolicySymbols}
    \cup {remove_highest_n_of(n, s) :
            n \in 0..(MaxDice + 1), s \in PolicySymbols}
    \cup {remove_lowest_n_of(n, s) :
            n \in 0..(MaxDice + 1), s \in PolicySymbols}

TargetSymbols == {<<pip>>, <<"A">>, <<"A", "B">>}

TargetsOn(s) ==
    {exactly_n_of(n, s) : n \in 0..MaxAmount}
    \cup {at_least_n_of(n, s) : n \in 0..MaxAmount}
    \cup {at_most_n_of(n, s) : n \in 0..MaxAmount}

\* no target, one target, or two targets: exactly n of "A" and at least m of
\* "B", as in the test two_custom_d4_multiple_targets; a target may also list
\* one symbol twice, since symbols is any slice of symbols
TargetLists ==
    {<<>>}
    \cup {<<t>> : t \in UNION {TargetsOn(s) : s \in TargetSymbols}}
    \cup {<<exactly_n_of(n, <<"A">>), at_least_n_of(m, <<"B">>)>> :
            n \in 0..MaxAmount, m \in 0..MaxAmount}
    \cup {<<exactly_n_of(2 * k, <<s, s>>)>> :
            k \in 0..MaxAmount, s \in {pip, "A"}}

\* the tables a table is rolled against: built by new from a small pool
OtherTables ==
    {RollProbabilities_new(ds, collect_all(s), FALSE).value[1] :
        ds \in UNION {[1..len -> Library] : len \in 1..MaxOtherDice},
        s \in PolicySymbols}

----------------------------------------------------------------------------
(* The caller                                                              *)

NoCall == [op |-> "none", targets |-> <<>>, other |-> <<>>]

\* nothing has been called on RollProbabilities
RollsIdle ==
    /\ dice = <<>>
    /\ policy = collect_all(<<>>)
    /\ table = <<>>
    /\ call = NoCall
    /\ ret = [kind |-> "None", value |-> <<>>, msg |-> ""]

\* two fresh ItemCounters
CountersIdle ==
    /\ counters = [w \in {"a", "b"} |-> ItemCounter_new]
    /\ ops = [w \in {"a", "b"} |-> <<>>]

\* no MultiCartesianProduct has been constructed
CartIdle ==
    /\ cart = <<>>
    /\ yielded = <<>>

\* no DieSymbol and no Die has been made
DiceIdle ==
    /\ symbol_calls = <<>>
    /\ die_call = [op |-> "none", sides |-> <<>>, ret |-> <<>>, msg |-> "",
                   unique |-> <<>>]

Init ==
    /\ RollsIdle
    /\ CountersIdle
    /\ CartIdle
    /\ DiceIdle

\* RollProbabilities::new(&dice, &policy).  The build profile (overflow checks
\* on or off) changes the outcome only of a call that underflows: with checks
\* it panics, without them it goes on with the wrapped value.
New(ds, pol) ==
    /\ call.op = "none"
    /\ dice' = ds
    /\ policy' = pol
    /\ call' = [NoCall EXCEPT !.op = "new"]
    /\ LET checked == RollProbabilities_new(ds, pol, TRUE)
       IN  IF checked.kind = "Panic"
           THEN \/ ret' = checked
                \/ ret' = RollProbabilities_new(ds, pol, FALSE)
           ELSE ret' = checked
    /\ table' = ret'.value
    /\ UNCHANGED <<counterVars, cartVars, diceVars>>

\* table.get_odds(&targets).  get_odds and roll_against read the table and
\* change nothing, so querying from the state new left reaches every result.
GetOdds(targets) ==
    /\ call.op = "new"
    /\ table /= <<>>
    /\ call' = [NoCall EXCEPT !.op = "get_odds", !.targets = targets]
    /\ ret' = [kind |-> "F64", value |-> <<get_odds(table[1], targets)>>,
               msg |-> ""]
    /\ UNCHANGED <<dice, policy, table>>
    /\ UNCHANGED <<counterVars, cartVars, diceVars>>

\* table.roll_against(&other)
RollAgainst(other) ==
    /\ call.op = "new"
    /\ table /= <<>>
    /\ call' = [NoCall EXCEPT !.op = "roll_against", !.other = <<other>>]
    /\ ret' = [kind |-> "RollCompareResult",
               value |-> <<roll_against(table[1], other)>>, msg |-> ""]
    /\ UNCHANGED <<dice, policy, table>>
    /\ UNCHANGED <<counterVars, cartVars, diceVars>>

Next ==
    \/ \E ds \in Pools, pol \in Policies : New(ds, pol)
    \/ \E targets \in TargetLists : GetOdds(targets)
    \/ \E other \in OtherTables \cup {table[i] : i \in 1..Len(table)} :
            RollAgainst(other)

Spec == Init /\ [][Next]_vars

----------------------------------------------------------------------------
(* Definitions the properties are stated with                              *)

\* the sum of the values of a function with a finite domain
RECURSIVE SumOver(_, _)
SumOver(f, S) ==
    IF S = {} THEN 0
    ELSE LET x == CHOOSE y \in S : TRUE
         IN  f[x] + SumOver(f, S \ {x})

SumFn(f) == SumOver(f, DOMAIN f)

Range(seq) == {seq[i] : i \in DOMAIN seq}

\* the product of the dice's side counts
SideProduct(ds) ==
    LET prod[i \in 0..Len(ds)] ==
            IF i = 0 THEN 1 ELSE Len(ds[i]) * prod[i - 1]
    IN  prod[Len(ds)]

\* the joint rolls of a pool: one side index per die
JointRolls(ds) ==
    {r \in [DOMAIN ds -> UNION {DOMAIN ds[i] : i \in DOMAIN ds}] :
        \A i \in DOMAIN ds : r[i] <= Len(ds[i])}

\* the sides a joint roll shows
RolledSides(ds, r) == [i \in DOMAIN ds |-> ds[i][r[i]]]

\* how many symbols of the set a side carries
Score(side, symbols) ==
    Cardinality({p \in DOMAIN side : side[p] \in symbols})

\* how many symbols of the set the sides of a joint roll carry together
RollScore(ds, r, symbols) ==
    SumFn([i \in DOMAIN ds |-> Score(ds[i][r[i]], symbols)])

\* the number of symbols an outcome key holds
KeySize(poss) == SumFn(poss.symbols)

\* N does not exceed the pool, or the policy has no N
ValidPolicy(ds, pol) == pol.coll_type = "CollectAll" \/ pol.n <= Len(ds)

HasTable == table /= <<>>

----------------------------------------------------------------------------
(* C1                                                                      *)

\* the key new files a joint roll under
KeyOfRoll(ds, r, pol) ==
    add_symbols(RollResultPossibility_new,
                collect_symbols(RolledSides(ds, r), pol, TRUE).symbols)

\* C1: for a non-empty pool and a policy that is collect-all or has
\* 0 <= N <= number of dice, new returns Ok with a table in which every key's
\* occurrence count is the number of joint rolls collected to that key and
\* every joint roll's key is present, so that the counts add up to the grand
\* total, which is the product of the dice's side counts.
C1_EveryRollCountedOnce ==
    (call.op = "new" /\ Len(dice) > 0 /\ ValidPolicy(dice, policy)) =>
        /\ ret.kind = "Ok"
        /\ HasTable
        /\ LET t == table[1]
               key == [r \in JointRolls(dice) |-> KeyOfRoll(dice, r, policy)]
           IN  /\ DOMAIN t.occurrences = Range(key)
               /\ \A k \in DOMAIN t.occurrences :
                    t.occurrences[k] =
                        Cardinality({r \in DOMAIN key : key[r] = k})
               /\ SumFn(t.occurrences) = t.total
               /\ t.total = SideProduct(dice)

\* a table of two or more dice under keep-highest-1 in which some key counts
\* several joint rolls
C1_Witness ==
    /\ call.op = "new"
    /\ Len(dice) >= 2
    /\ policy.coll_type = "TakeHighestN"
    /\ policy.n = 1
    /\ ret.kind = "Ok"
    /\ \E k \in DOMAIN table[1].occurrences : table[1].occurrences[k] > 1

----------------------------------------------------------------------------
(* C2                                                                      *)

\* the number of joint rolls of the pool whose sides carry exactly k symbols
\* of the set
RollsWithExactly(ds, k, symbols) ==
    Cardinality({r \in JointRolls(ds) : RollScore(ds, r, symbols) = k})

\* the counts the spec gives for two standard 4-sided dice, k = 2..8
TwoD4Counts == <<0, 1, 2, 3, 4, 3, 2, 1>>

\* no symbol appears twice in the slice
Distinct(symbols) == Cardinality(Range(symbols)) = Len(symbols)

\* C2: under collect-all with relevant set P, get_odds of the single target
\* exactly_n_of(k, S), S distinct symbols of P, is the number of joint rolls
\* whose sides carry exactly k symbols of S, divided by the grand total; for
\* two standard d4 the counts for k = 2..8 are 1,2,3,4,3,2,1 of 16.
C2_ExactlyCountsJointRolls ==
    /\ (/\ call.op = "get_odds"
        /\ policy.coll_type = "CollectAll"
        /\ Len(call.targets) = 1
        /\ call.targets[1].target_type = "Exactly"
        /\ Distinct(call.targets[1].symbols)
        /\ Range(call.targets[1].symbols) \subseteq Range(policy.symbols))
       => ret.value[1] =
            f64_div(RollsWithExactly(dice, call.targets[1].amount,
                                     Range(call.targets[1].symbols)),
                    SideProduct(dice))
    /\ (/\ call.op = "new"
        /\ dice = <<d4, d4>>
        /\ policy = collect_all(<<pip>>))
       => \A k \in 2..8 :
            get_odds(table[1], <<exactly_n_of(k, <<pip>>)>>) =
                f64_div(TwoD4Counts[k], 16)

\* exactly 1 of {"A", "B"} asked of a collect-all table of two or more dice,
\* with odds strictly between 0 and 1
C2_Witness ==
    /\ call.op = "get_odds"
    /\ policy = collect_all(<<"A", "B">>)
    /\ Len(dice) >= 2
    /\ call.targets = <<exactly_n_of(1, <<"A", "B">>)>>
    /\ ret.value[1].num > 0
    /\ ret.value[1].den > 1

----------------------------------------------------------------------------
(* C3                                                                      *)

\* the sum of the key's counts over the entries of the target's symbols
KeyCount(poss, symbols) ==
    SumFn([i \in DOMAIN symbols |->
            IF symbols[i] \in DOMAIN poss.symbols
            THEN poss.symbols[symbols[i]] ELSE 0])

\* the target holds for the key
Holds(poss, target) ==
    \/ target.target_type = "Exactly"
       /\ KeyCount(poss, target.symbols) = target.amount
    \/ target.target_type = "AtLeast"
       /\ KeyCount(poss, target.symbols) >= target.amount
    \/ target.target_type = "AtMost"
       /\ KeyCount(poss, target.symbols) =< target.amount

\* the occurrences of the keys for which every target of the list holds
Matched(t, targets) ==
    LET keys == {k \in DOMAIN t.occurrences :
                    \A i \in DOMAIN targets : Holds(k, targets[i])}
    IN  SumFn([k \in keys |-> t.occurrences[k]])

\* C3: get_odds counts a key's occurrences exactly when every target of the
\* list holds for the key, and returns that count divided by the grand total.
C3_TargetsAreConjoined ==
    call.op = "get_odds" =>
        ret.value[1] = f64_div(Matched(table[1], call.targets),
                               table[1].total)

\* two targets of which each holds for some key that the other rejects, and
\* both hold for some key
C3_Witness ==
    /\ call.op = "get_odds"
    /\ Len(call.targets) = 2
    /\ ret.value[1].num > 0
    /\ \E k \in DOMAIN table[1].occurrences :
            Holds(k, call.targets[1]) /\ ~Holds(k, call.targets[2])
    /\ \E k \in DOMAIN table[1].occurrences :
            ~Holds(k, call.targets[1]) /\ Holds(k, call.targets[2])

----------------------------------------------------------------------------
(* C4                                                                      *)

\* the largest count of the symbols in any key of the table
MaxKeyCount(t, symbols) ==
    LET counts == {KeyCount(k, symbols) : k \in DOMAIN t.occurrences}
    IN  CHOOSE m \in counts : \A c \in counts : c <= m

\* C4: for a built table and a slice S of distinct symbols, the targets
\* exactly_n_of(k, S), k = 0..max, are matched by pairwise disjoint sets of
\* keys, and the occurrences get_odds matches for them add up to the grand
\* total: the probabilities sum to 1.
C4_ExactlyTargetsPartition ==
    (/\ call.op = "get_odds"
     /\ Len(call.targets) = 1
     /\ call.targets[1].target_type = "Exactly")
    => LET t == table[1]
           S == call.targets[1].symbols
           max == MaxKeyCount(t, S)
           odds == [k \in 0..max |-> get_odds(t, <<exactly_n_of(k, S)>>)]
       IN  /\ \A k \in 0..max : t.total % odds[k].den = 0
           /\ SumFn([k \in 0..max |->
                        odds[k].num * (t.total \div odds[k].den)])
              = t.total
           /\ \A key \in DOMAIN t.occurrences :
                Cardinality({k \in 0..max :
                    target_matches(key, exactly_n_of(k, S))}) = 1
           /\ call.targets[1].amount <= max
                => ret.value[1] = odds[call.targets[1].amount]

\* an exactly target asked of a table whose keys hold three or more different
\* counts of the target's symbols
C4_Witness ==
    /\ call.op = "get_odds"
    /\ Len(call.targets) = 1
    /\ call.targets[1].target_type = "Exactly"
    /\ Cardinality({KeyCount(k, call.targets[1].symbols) :
                        k \in DOMAIN table[1].occurrences}) >= 3
    /\ ret.value[1].num > 0

----------------------------------------------------------------------------
(* C5                                                                      *)

\* the occurrences of the table's keys that hold v symbols in all
WeightOfValue(t, v) ==
    SumFn([k \in {x \in DOMAIN t.occurrences : KeySize(x) = v} |->
            t.occurrences[k]])

\* the largest number of symbols a key of the table holds
MaxValue(t) ==
    LET sizes == {KeySize(k) : k \in DOMAIN t.occurrences}
    IN  CHOOSE m \in sizes : \A c \in sizes : c <= m

\* the sum over the pairs (key of a, key of b) whose sizes stand in the
\* relation, of the product of the two occurrence counts
PairWeight(a, b, Rel(_, _)) ==
    SumFn([ka \in DOMAIN a.occurrences |->
            SumFn([kb \in {x \in DOMAIN b.occurrences :
                                Rel(KeySize(ka), KeySize(x))} |->
                    a.occurrences[ka] * b.occurrences[kb]])])

Greater(x, y) == x > y

Equal(x, y) == x = y

Less(x, y) == x < y

\* C5: a.roll_against(b) adds, for every pair (key of a, key of b) once, the
\* product of the two occurrence counts to wins when a's key holds more
\* symbols than b's, to ties when as many, to losses when fewer; the odds
\* are these sums divided by wins + ties + losses.
C5_RollAgainstClassifiesPairs ==
    call.op = "roll_against" =>
        LET a == table[1]
            b == call.other[1]
            c == ret.value[1]
        IN  /\ c.wins = PairWeight(a, b, Greater)
            /\ c.ties = PairWeight(a, b, Equal)
            /\ c.losses = PairWeight(a, b, Less)
            /\ c.total = c.wins + c.ties + c.losses
            /\ win_odds(c) = f64_div(c.wins, c.wins + c.ties + c.losses)
            /\ tie_odds(c) = f64_div(c.ties, c.wins + c.ties + c.losses)
            /\ loss_odds(c) = f64_div(c.losses, c.wins + c.ties + c.losses)

\* a comparison of two different tables with wins, ties and losses, in which
\* some pair weighs more than 1
C5_Witness ==
    /\ call.op = "roll_against"
    /\ call.other[1] /= table[1]
    /\ ret.value[1].wins > 0
    /\ ret.value[1].ties > 0
    /\ ret.value[1].losses > 0
    /\ \E k \in DOMAIN table[1].occurrences : table[1].occurrences[k] > 1
    /\ Cardinality(DOMAIN call.other[1].occurrences) > 1

----------------------------------------------------------------------------
(* C6                                                                      *)

\* C6: a table rolled against itself has as many wins as losses, and its
\* ties are the sum over the values v of the square of the number of joint
\* rolls of value v.
C6_SelfComparisonIsSymmetric ==
    (call.op = "roll_against" /\ call.other = table) =>
        LET a == table[1]
            c == ret.value[1]
        IN  /\ c.wins = c.losses
            /\ c.ties = SumFn([v \in 0..MaxValue(a) |->
                                WeightOfValue(a, v) * WeightOfValue(a, v)])

\* a table of several values rolled against itself
C6_Witness ==
    /\ call.op = "roll_against"
    /\ call.other = table
    /\ ret.value[1].wins > 0
    /\ MaxValue(table[1]) >= 2

----------------------------------------------------------------------------
(* C7                                                                      *)

\* the relevance scores of the sides of a joint roll, one per die
Scores(ds, r, symbols) ==
    [i \in DOMAIN ds |-> Score(ds[i][r[i]], symbols)]

\* the largest sum of n of the scores, and the smallest
SumOfLargest(scores, n) ==
    LET sums == {SumFn([i \in c |-> scores[i]]) :
                    c \in {x \in SUBSET DOMAIN scores : Cardinality(x) = n}}
    IN  CHOOSE m \in sums : \A x \in sums : x <= m

SumOfSmallest(scores, n) ==
    LET sums == {SumFn([i \in c |-> scores[i]]) :
                    c \in {x \in SUBSET DOMAIN scores : Cardinality(x) = n}}
    IN  CHOOSE m \in sums : \A x \in sums : x >= m

\* what the claim says a joint roll's outcome holds under the policy
KeptScore(ds, r, pol) ==
    IF pol.coll_type = "TakeHighestN"
    THEN SumOfLargest(Scores(ds, r, Range(pol.symbols)), pol.n)
    ELSE SumOfSmallest(Scores(ds, r, Range(pol.symbols)), pol.n)

\* C7: for D dice and 0 <= N <= D, the outcome collected for a joint roll
\* under take_highest_n_of(N) holds as many symbols as the N largest relevance
\* scores of the roll add up to, and under take_lowest_n_of(N) as many as the
\* N smallest; so the table counts, per number of symbols, the joint rolls
\* with that sum.
C7_KeepSumsTheExtremeScores ==
    (/\ call.op = "new"
     /\ policy.coll_type \in {"TakeHighestN", "TakeLowestN"}
     /\ Len(dice) > 0
     /\ policy.n <= Len(dice))
    => /\ ret.kind = "Ok"
       /\ \A r \in JointRolls(dice) :
            Len(collect_symbols(RolledSides(dice, r), policy, TRUE).symbols)
                = KeptScore(dice, r, policy)
       /\ \A v \in 0..MaxValue(table[1]) :
            WeightOfValue(table[1], v) =
                Cardinality({r \in JointRolls(dice) :
                                KeptScore(dice, r, policy) = v})

\* one side kept of two dice, the table telling the highest from the rest:
\* some key holds two symbols or more
C7_Witness ==
    /\ call.op = "new"
    /\ policy.coll_type \in {"TakeHighestN", "TakeLowestN"}
    /\ Len(dice) = 2
    /\ policy.n = 1
    /\ ret.kind = "Ok"
    /\ MaxValue(table[1]) >= 2

----------------------------------------------------------------------------
(* C8                                                                      *)

\* the table new builds for the pool under the policy (no underflow occurs
\* for the policies it is used with)
TableOf(ds, pol) == RollProbabilities_new(ds, pol, TRUE).value

\* C8: for D dice and 0 <= N <= D, remove_highest_n_of(N) builds the table of
\* take_lowest_n_of(D - N) and remove_lowest_n_of(N) the table of
\* take_highest_n_of(D - N); remove_*_n_of(0) and take_*_n_of(D) build the
\* table of collect_all.
C8_RemoveIsComplementaryTake ==
    (call.op = "new" /\ Len(dice) > 0 /\ ValidPolicy(dice, policy)) =>
        LET D == Len(dice)
            N == policy.n
            P == policy.symbols
        IN  /\ policy.coll_type = "RemoveHighestN"
                => table = TableOf(dice, take_lowest_n_of(D - N, P))
            /\ policy.coll_type = "RemoveLowestN"
                => table = TableOf(dice, take_highest_n_of(D - N, P))
            /\ (policy.coll_type \in {"RemoveHighestN", "RemoveLowestN"}
                /\ N = 0)
                => table = TableOf(dice, collect_all(P))
            /\ (policy.coll_type \in {"TakeHighestN", "TakeLowestN"}
                /\ N = D)
                => table = TableOf(dice, collect_all(P))

\* a table built by removing one side of two, with odds that depend on which
C8_Witness ==
    /\ call.op = "new"
    /\ policy.coll_type \in {"RemoveHighestN", "RemoveLowestN"}
    /\ Len(dice) = 2
    /\ policy.n = 1
    /\ HasTable
    /\ table /= TableOf(dice, collect_all(policy.symbols))

----------------------------------------------------------------------------
(* C9                                                                      *)

\* C9 as claimed: a keep/drop policy whose N exceeds the number of dice is
\* rejected with an error value; new neither faults nor returns a table.
C9_OversizedNIsRejected ==
    (/\ call.op = "new"
     /\ policy.coll_type /= "CollectAll"
     /\ policy.n > Len(dice))
    => ret.kind = "Err"

----------------------------------------------------------------------------
(* C10                                                                     *)

\* C10: new returns Err and no table for an empty dice slice, and Ok with a
\* table for one or more dice under a policy with N within the pool.
C10_EmptyPoolIsAnError ==
    call.op = "new" =>
        /\ Len(dice) = 0 => (ret.kind = "Err" /\ ~HasTable)
        /\ (Len(dice) > 0 /\ ValidPolicy(dice, policy))
            => (ret.kind = "Ok" /\ HasTable)

\* new called with no dice
C10_Witness ==
    /\ call.op = "new"
    /\ dice = <<>>
    /\ ret.kind = "Err"

----------------------------------------------------------------------------
(* The caller of ItemCounter                                               *)

\* the items counted
Items == {"A", "B"}

\* counters[w].add(&item)
Add(w, item) ==
    /\ Len(ops[w]) < MaxOps
    /\ counters' = [counters EXCEPT ![w] = add(@, item)]
    /\ ops' = [ops EXCEPT ![w] = Append(@, [item |-> item, amount |-> 1])]
    /\ UNCHANGED <<rollVars, cartVars, diceVars>>

\* counters[w].add_amount(&item, amount)
AddAmount(w, item, amount) ==
    /\ Len(ops[w]) < MaxOps
    /\ counters' = [counters EXCEPT ![w] = add_amount(@, item, amount)]
    /\ ops' = [ops EXCEPT
                ![w] = Append(@, [item |-> item, amount |-> amount])]
    /\ UNCHANGED <<rollVars, cartVars, diceVars>>

NextCounter ==
    \/ \E w \in {"a", "b"}, item \in Items : Add(w, item)
    \/ \E w \in {"a", "b"}, item \in Items, amount \in 0..MaxAddAmount :
            AddAmount(w, item, amount)

SpecCounter == Init /\ [][NextCounter]_vars

----------------------------------------------------------------------------
(* C11                                                                     *)

\* how often a call occurs among the calls received
TimesCalled(h, op) == Cardinality({i \in DOMAIN h : h[i] = op})

\* the two histories hold the same calls, each as often, in any order
SameCalls(h1, h2) ==
    /\ Len(h1) = Len(h2)
    /\ \A op \in Range(h1) \cup Range(h2) :
            TimesCalled(h1, op) = TimesCalled(h2, op)

\* every call received added one occurrence
OnlyAdds(h) == \A i \in DOMAIN h : h[i].amount = 1

\* the items of the calls, in call order: the symbols of a rolled side that
\* makes add_symbols issue these calls
ItemsOf(h) == [i \in DOMAIN h |-> h[i].item]

\* the occurrences map after the builder has counted the two one-die rolls
\* whose collected symbols are the two sequences
CountedBoth(s1, s2) ==
    LET pol == collect_all(<<"A", "B">>)
        first == count_roll([panic |-> FALSE, map |-> HashMap_new],
                            <<s1>>, pol, TRUE)
    IN  count_roll(first, <<s2>>, pol, TRUE).map

\* C11: two ItemCounters that received the same calls in different orders
\* are equal and feed the hasher the same sequence, so they hash alike; and
\* the builder files two rolls whose collected symbols are the same calls of
\* add in different orders under one key, whose occurrence count is 2.
C11_OrderOfAddsIsIrrelevant ==
    SameCalls(ops["a"], ops["b"]) =>
        /\ counters["a"] = counters["b"]
        /\ hash(counters["a"]) = hash(counters["b"])
        /\ (OnlyAdds(ops["a"]) /\ ops["a"] /= <<>>) =>
                LET map == CountedBoth(ItemsOf(ops["a"]), ItemsOf(ops["b"]))
                IN  /\ DOMAIN map = {[symbols |-> counters["a"]]}
                    /\ map[[symbols |-> counters["a"]]] = 2

\* the two counters received add("A") and add("B") in opposite orders
C11_Witness ==
    /\ ops["a"] = <<[item |-> "A", amount |-> 1], [item |-> "B", amount |-> 1]>>
    /\ ops["b"] = <<[item |-> "B", amount |-> 1], [item |-> "A", amount |-> 1]>>
    /\ counters["a"] = counters["b"]

----------------------------------------------------------------------------
(* MultiCartesianProduct                                                   *)

\* MultiCartesianProduct::new(&sets)
MultiCartesianProduct_new(sets) ==
    [sets |-> sets,
     maximums |-> [index \in 1..Len(sets) |-> Len(sets[index])],
     indexes |-> [index \in 1..Len(sets) |-> 0],
     is_complete |-> FALSE]

inc_loop_last_first(indexes, maximums, incrementing, index) ==
    LET step[at \in 0..Len(indexes)] ==
            IF at = 0
            THEN [indexes |-> indexes, incrementing |-> incrementing,
                  index |-> index]
            ELSE LET before == step[at - 1]
                     pos == Len(indexes) + 1 - at
                     v == (before.indexes[pos] + 1) % maximums[pos]
                 IN  IF before.incrementing
                     THEN [indexes |-> [before.indexes EXCEPT ![pos] = v],
                           incrementing |-> v = 0,
                           index |-> at]
                     ELSE before
    IN  step[Len(indexes)]

\* the while loop of increment_counter, entered with the given values of its
\* variables; index counts from 0 as in the source, sequences from 1
RECURSIVE inc_loop(_, _, _, _)
inc_loop(indexes, maximums, incrementing, index) ==
    IF incrementing /\ index < Len(indexes)
    THEN LET v == (indexes[index + 1] + 1) % maximums[index + 1]
         IN  inc_loop([indexes EXCEPT ![index + 1] = v], maximums,
                      v = 0, index + 1)
    ELSE [indexes |-> indexes, incrementing |-> incrementing,
          index |-> index]

increment_counter_complete_at_end(self) ==
    LET end == inc_loop(self.indexes, self.maximums, TRUE, 0)
    IN  [self EXCEPT !.indexes = end.indexes,
                     !.is_complete = (end.index = Len(self.indexes))]

\* MultiCartesianProduct::increment_counter
increment_counter(self) ==
    LET end == inc_loop(self.indexes, self.maximums, TRUE, 0)
    IN  [self EXCEPT !.indexes = end.indexes,
                     !.is_complete = (end.index = Len(self.indexes))
                                     /\ end.incrementing]

\* what next() returns
None == [kind |-> "None", value |-> <<>>]
Some(v) == [kind |-> "Some", value |-> v]
IndexOutOfBounds == [kind |-> "Panic", value |-> <<>>]

next_restarts(self) ==
    IF self.is_complete
    THEN [self |-> [self EXCEPT !.is_complete = FALSE], ret |-> None]
    ELSE IF \E i \in 1..Len(self.sets) :
                self.indexes[i] >= Len(self.sets[i])
    THEN [self |-> self, ret |-> IndexOutOfBounds]
    ELSE [self |-> increment_counter(self),
          ret |-> Some([i \in 1..Len(self.sets) |->
                            self.sets[i][self.indexes[i] + 1]])]

\* Iterator::next: the iterator after the call and what the call returned.
\* x[self.indexes[i]] panics when the index is not below the length of x,
\* before anything is written.
next(self) ==
    IF self.is_complete
    THEN [self |-> self, ret |-> None]
    ELSE IF \E i \in 1..Len(self.sets) :
                self.indexes[i] >= Len(self.sets[i])
    THEN [self |-> self, ret |-> IndexOutOfBounds]
    ELSE [self |-> increment_counter(self),
          ret |-> Some([i \in 1..Len(self.sets) |->
                            self.sets[i][self.indexes[i] + 1]])]

----------------------------------------------------------------------------
(* The caller of MultiCartesianProduct                                     *)

\* the sequences handed to new: as in the tests, consecutive integers with no
\* element in two sequences; a sequence may be empty
CartInputs ==
    UNION {{[i \in 1..n |-> [j \in 1..lens[i] |-> (i - 1) * MaxSetLen + j]] :
                lens \in [1..n -> 0..MaxSetLen]} : n \in 0..MaxSets}

\* let mut cart = MultiCartesianProduct::new(&sets)
CartNew(sets) ==
    /\ cart = <<>>
    /\ cart' = <<MultiCartesianProduct_new(sets)>>
    /\ yielded' = <<>>
    /\ UNCHANGED <<rollVars, counterVars, diceVars>>

\* cart.next(); a caller stops calling after a panic, and the model after
\* MaxNones calls that returned None
CartNext ==
    /\ cart /= <<>>
    /\ \A k \in 1..Len(yielded) : yielded[k].kind /= "Panic"
    /\ Cardinality({k \in 1..Len(yielded) : yielded[k].kind = "None"})
            < MaxNones
    /\ LET after == next(cart[1])
       IN  /\ cart' = <<after.self>>
           /\ yielded' = Append(yielded, after.ret)
    /\ UNCHANGED <<rollVars, counterVars, diceVars>>

NextCart ==
    \/ \E sets \in CartInputs : CartNew(sets)
    \/ CartNext

SpecCart == Init /\ [][NextCart]_vars

----------------------------------------------------------------------------
(* C12                                                                     *)

\* the product of the lengths of the first n sequences
LenProduct(sets, n) ==
    LET prod[i \in 0..n] == IF i = 0 THEN 1 ELSE Len(sets[i]) * prod[i - 1]
    IN  prod[n]

\* every tuple with one element of each sequence, in sequence order
Tuples(sets) ==
    {t \in [1..Len(sets) -> UNION {Range(sets[i]) : i \in 1..Len(sets)}] :
        \A i \in 1..Len(sets) : t[i] \in Range(sets[i])}

\* an iterator has been constructed over sequences none of which is empty
OverNonEmptySets ==
    /\ cart /= <<>>
    /\ \A i \in 1..Len(cart[1].sets) : Len(cart[1].sets[i]) >= 1

\* the calls of next() so far that returned Some
SomeCalls == {k \in 1..Len(yielded) : yielded[k].kind = "Some"}

\* C12: over N non-empty sequences, next() returns every N-tuple of the
\* product exactly once and then None: no tuple is returned twice, None is
\* returned exactly when as many tuples as the product of the lengths have
\* been returned, and those are all the tuples of the product.
C12_EveryTupleExactlyOnce ==
    OverNonEmptySets =>
        LET sets == cart[1].sets
            size == LenProduct(sets, Len(sets))
        IN  /\ \A k \in 1..Len(yielded) :
                    /\ yielded[k].kind /= "Panic"
                    /\ yielded[k].kind = "Some" <=> k <= size
                    /\ yielded[k].kind = "Some" =>
                            yielded[k].value \in Tuples(sets)
            /\ \A k1, k2 \in SomeCalls :
                    yielded[k1].value = yielded[k2].value => k1 = k2
            /\ cart[1].is_complete <=> Len(yielded) >= size
            /\ Len(yielded) >= size =>
                    {yielded[k].value : k \in SomeCalls} = Tuples(sets)

\* the iterator over three sequences of lengths 3, 2 and 3 has returned its
\* 18 tuples and then None
C12_Witness ==
    /\ OverNonEmptySets
    /\ Len(cart[1].sets) = 3
    /\ Len(cart[1].sets[1]) = 3
    /\ Len(cart[1].sets[2]) = 2
    /\ Len(cart[1].sets[3]) = 3
    /\ Cardinality(SomeCalls) = 18
    /\ yielded[Len(yielded)].kind = "None"

----------------------------------------------------------------------------
(* C13                                                                     *)

\* C13: tuples come in odometer order with sequence 0 varying fastest: the
\* k-th tuple returned (k from 0) holds, in position i, the element at index
\* (k div (len_0 * ... * len_(i-1))) mod len_i of sequence i, so the first
\* tuple holds the first element of every sequence.
C13_OdometerOrder ==
    OverNonEmptySets =>
        LET sets == cart[1].sets
        IN  \A k \in SomeCalls : \A i \in 1..Len(sets) :
                yielded[k].value[i] =
                    sets[i][(((k - 1) \div LenProduct(sets, i - 1))
                                % Len(sets[i])) + 1]

\* the iterator over sequences of lengths 3 and 2 has returned the tuple
\* after the first sequence wrapped around: its fourth, [1, 5] in the test
\* two_sets
C13_Witness ==
    /\ OverNonEmptySets
    /\ Len(cart[1].sets) = 2
    /\ Len(cart[1].sets[1]) = 3
    /\ Len(cart[1].sets[2]) = 2
    /\ Len(yielded) = 4
    /\ yielded[4] = Some(<<cart[1].sets[1][1], cart[1].sets[2][2]>>)

----------------------------------------------------------------------------
(* The odds of given tables and comparison results                         *)

\* RollProbabilities { occurrences: HashMap::new(), total: 0 }: the table
\* without outcomes, which get_odds guards against.  Its fields are private
\* and new rejects the empty pool, so only code of the module can make it.
EmptyTable == [occurrences |-> HashMap_new, total |-> 0]

\* the tables whose odds are asked for
HeldTables == {EmptyTable} \cup OtherTables

\* RollCompareResult::new(wins, ties, losses) for small counts
CompareResults ==
    {RollCompareResult_new(wins, ties, losses) :
        wins \in 0..MaxCount, ties \in 0..MaxCount, losses \in 0..MaxCount}

\* some table is held and nothing has been called on it
InitOdds ==
    /\ dice = <<>>
    /\ policy = collect_all(<<>>)
    /\ table \in {<<t>> : t \in HeldTables}
    /\ call = NoCall
    /\ ret = [kind |-> "None", value |-> <<>>, msg |-> ""]
    /\ CountersIdle
    /\ CartIdle
    /\ DiceIdle

\* table.get_odds(&targets) on the table held
GetOddsOfHeld(targets) ==
    /\ call.op = "none"
    /\ call' = [NoCall EXCEPT !.op = "get_odds", !.targets = targets]
    /\ ret' = [kind |-> "F64", value |-> <<get_odds(table[1], targets)>>,
               msg |-> ""]
    /\ UNCHANGED <<dice, policy, table>>
    /\ UNCHANGED <<counterVars, cartVars, diceVars>>

\* c.win_odds()
WinOdds(c) ==
    /\ call.op = "none"
    /\ call' = [NoCall EXCEPT !.op = "win_odds", !.other = <<c>>]
    /\ ret' = [kind |-> "F64", value |-> <<win_odds(c)>>, msg |-> ""]
    /\ UNCHANGED <<dice, policy, table>>
    /\ UNCHANGED <<counterVars, cartVars, diceVars>>

\* c.tie_odds()
TieOdds(c) ==
    /\ call.op = "none"
    /\ call' = [NoCall EXCEPT !.op = "tie_odds", !.other = <<c>>]
    /\ ret' = [kind |-> "F64", value |-> <<tie_odds(c)>>, msg |-> ""]
    /\ UNCHANGED <<dice, policy, table>>
    /\ UNCHANGED <<counterVars, cartVars, diceVars>>

\* c.loss_odds()
LossOdds(c) ==
    /\ call.op = "none"
    /\ call' = [NoCall EXCEPT !.op = "loss_odds", !.other = <<c>>]
    /\ ret' = [kind |-> "F64", value |-> <<loss_odds(c)>>, msg |-> ""]
    /\ UNCHANGED <<dice, policy, table>>
    /\ UNCHANGED <<counterVars, cartVars, diceVars>>

NextOdds ==
    \/ \E targets \in TargetLists : GetOddsOfHeld(targets)
    \/ \E c \in CompareResults : WinOdds(c)
    \/ \E c \in CompareResults : TieOdds(c)
    \/ \E c \in CompareResults : LossOdds(c)

SpecOdds == InitOdds /\ [][NextOdds]_vars

----------------------------------------------------------------------------
(* C14                                                                     *)

\* C14: get_odds on a table whose grand total is 0 returns 0.0 whatever the
\* targets, and win_odds, tie_odds and loss_odds of a RollCompareResult whose
\* wins + ties + losses is 0 each return 0.0.
C14_EmptyDenominatorGivesZero ==
    /\ (call.op = "get_odds" /\ table[1].total = 0)
            => ret.value = <<f64_zero>>
    /\ (/\ call.op \in {"win_odds", "tie_odds", "loss_odds"}
        /\ call.other[1].wins + call.other[1].ties + call.other[1].losses = 0)
            => ret.value = <<f64_zero>>

\* get_odds was asked of the table without outcomes for a target
C14_Witness ==
    /\ call.op = "get_odds"
    /\ table[1].total = 0
    /\ call.targets = <<at_least_n_of(1, <<pip>>)>>
    /\ ret.kind = "F64"

----------------------------------------------------------------------------
(* DieSymbol::new                                                          *)

\* In this part a str is the sequence of its characters, and the name of a
\* DieSymbol is such a sequence: new works on the characters.  The tables
\* above only compare symbols, and hold each as one string.

\* the characters with the Unicode property White_Space that the model uses
White_Space == {" ", "\t"}

\* str::trim_start
RECURSIVE trim_start(_)
trim_start(str) ==
    IF str /= <<>> /\ Head(str) \in White_Space
    THEN trim_start(Tail(str))
    ELSE str

\* str::trim_end
RECURSIVE trim_end(_)
trim_end(str) ==
    IF str /= <<>> /\ str[Len(str)] \in White_Space
    THEN trim_end(SubSeq(str, 1, Len(str) - 1))
    ELSE str

\* str::trim: leading and trailing whitespace removed
trim(str) == trim_end(trim_start(str))

DieSymbol_new_untrimmed(val) ==
    LET trimmed == trim(val)
    IN  IF Len(trimmed) = 0
        THEN [kind |-> "Err", value |-> <<>>,
              msg |-> "Value cannot be empty"]
        ELSE [kind |-> "Ok", value |-> <<[name |-> val]>>, msg |-> ""]

\* DieSymbol::new(val)
DieSymbol_new(val) ==
    LET trimmed == trim(val)
    IN  IF Len(trimmed) = 0
        THEN [kind |-> "Err", value |-> <<>>,
              msg |-> "Value cannot be empty"]
        ELSE [kind |-> "Ok", value |-> <<[name |-> trimmed]>>, msg |-> ""]

\* the characters of the strings handed to new
Chars == White_Space \cup {"a"}

Strings == UNION {[1..len -> Chars] : len \in 0..MaxNameLen}

\* DieSymbol::new(val), called any number of times: the caller holds the
\* results of its last two calls
SymbolNew(val) ==
    /\ LET this == [val |-> val, ret |-> DieSymbol_new(val)]
       IN  symbol_calls' =
                IF symbol_calls = <<>>
                THEN <<this>>
                ELSE <<symbol_calls[Len(symbol_calls)], this>>
    /\ UNCHANGED <<rollVars, counterVars, cartVars, die_call>>

NextSymbol == \E val \in Strings : SymbolNew(val)

SpecSymbol == Init /\ [][NextSymbol]_vars

----------------------------------------------------------------------------
(* C15                                                                     *)

\* the string is empty or holds whitespace only
Blank(str) == \A i \in 1..Len(str) : str[i] \in White_Space

\* the string without its first `left` and its last `right` characters,
\* which are all whitespace
Unpadded(str, left, right) == SubSeq(str, left + 1, Len(str) - right)

IsPadding(str, left, right) ==
    /\ left + right <= Len(str)
    /\ \A i \in 1..Len(str) :
            (i <= left \/ i > Len(str) - right) => str[i] \in White_Space

\* the two strings differ in surrounding whitespace only
SameButPadding(s1, s2) ==
    \E l1 \in 0..Len(s1), r1 \in 0..Len(s1),
       l2 \in 0..Len(s2), r2 \in 0..Len(s2) :
        /\ IsPadding(s1, l1, r1)
        /\ IsPadding(s2, l2, r2)
        /\ Unpadded(s1, l1, r1) = Unpadded(s2, l2, r2)

\* the name neither starts nor ends with whitespace
IsTrimmed(str) ==
    str /= <<>> => (Head(str) \notin White_Space
                    /\ str[Len(str)] \notin White_Space)

\* C15: DieSymbol::new returns Err for an empty or whitespace-only name and
\* otherwise Ok with the name stored without its surrounding whitespace, so
\* every DieSymbol has a non-empty name, and names that differ only in
\* surrounding whitespace give equal symbols.
C15_SymbolNamesAreTrimmed ==
    /\ \A k \in 1..Len(symbol_calls) :
            LET val == symbol_calls[k].val
                made == symbol_calls[k].ret
            IN  /\ made.kind = "Err" <=> Blank(val)
                /\ made.kind = "Ok" <=> ~Blank(val)
                /\ made.kind = "Ok" =>
                        /\ made.value[1].name /= <<>>
                        /\ IsTrimmed(made.value[1].name)
                        /\ SameButPadding(made.value[1].name, val)
    /\ \A k1, k2 \in 1..Len(symbol_calls) :
            SameButPadding(symbol_calls[k1].val, symbol_calls[k2].val)
                => symbol_calls[k1].ret = symbol_calls[k2].ret

\* new was called with " a" and with "a\t": two symbols named "a"
C15_Witness ==
    /\ Len(symbol_calls) = 2
    /\ symbol_calls[1].val = <<" ", "a">>
    /\ symbol_calls[2].val = <<"a", "\t">>
    /\ symbol_calls[1].ret.kind = "Ok"
    /\ symbol_calls[1].ret = symbol_calls[2].ret

----------------------------------------------------------------------------
(* Die                                                                     *)

Die_new_accepts_one_side(sides) ==
    IF Len(sides) = 0
    THEN [kind |-> "Err", value |-> <<>>,
          msg |-> "Die must have at least 2 sides"]
    ELSE [kind |-> "Ok", value |-> <<sides>>, msg |-> ""]

\* Die::new(sides)
Die_new(sides) ==
    IF Len(sides) = 0
    THEN [kind |-> "Err", value |-> <<>>,
          msg |-> "Die must have at least 2 sides"]
    ELSE IF Len(sides) = 1
    THEN [kind |-> "Err", value |-> <<>>,
          msg |-> "Die must have at least 2 sides"]
    ELSE [kind |-> "Ok", value |-> <<sides>>, msg |-> ""]

\* the loop of unique_symbols over the symbols of one side, from the i-th
\* on: a symbol is pushed unless `unique` holds it already
RECURSIVE push_unique(_, _, _)
push_unique(unique, symbols, i) ==
    IF i > Len(symbols) THEN unique
    ELSE LET pushed == IF Contains(unique, symbols[i])
                       THEN unique
                       ELSE Append(unique, symbols[i])
         IN  IF Len(pushed) = 0 THEN pushed
             ELSE push_unique(pushed, symbols, i + 1)

\* the loop over the flattened sides, from side j on: flatten hands on the
\* symbols of one side after those of the other
RECURSIVE push_unique_of_sides(_, _, _)
push_unique_of_sides(unique, sides, j) ==
    IF j > Len(sides) THEN unique
    ELSE LET pushed == push_unique(unique, sides[j], 1)
         IN  IF Len(pushed) < 0 THEN pushed
             ELSE push_unique_of_sides(pushed, sides, j + 1)

\* Die::unique_symbols
unique_symbols(die) == push_unique_of_sides(<<>>, die, 1)

\* the factories of dice::standard, by name
standard ==
    [d4 |-> d4, d6 |-> d6, d8 |-> d8, d10 |-> d10, d12 |-> d12, d20 |-> d20]

\* the sides handed to Die::new
SideChoices == {<<>>, <<"A">>, <<"B">>, <<"A", "B">>, <<pip>>}

SideLists == UNION {[1..len -> SideChoices] : len \in 0..MaxSides}

\* Die::new(sides)
DieNew(sides) ==
    /\ die_call.op = "none"
    /\ LET made == Die_new(sides)
       IN  die_call' = [op |-> "new", sides |-> sides, ret |-> made.value,
                        msg |-> made.msg, unique |-> <<>>]
    /\ UNCHANGED <<rollVars, counterVars, cartVars, symbol_calls>>

\* standard::d4(), ..., standard::d20()
StandardDie(name) ==
    /\ die_call.op = "none"
    /\ die_call' = [op |-> name, sides |-> <<>>, ret |-> <<standard[name]>>,
                    msg |-> "", unique |-> <<>>]
    /\ UNCHANGED <<rollVars, counterVars, cartVars, symbol_calls>>

\* die.unique_symbols() on the Die made
UniqueSymbols ==
    /\ die_call.ret /= <<>>
    /\ die_call.unique = <<>>
    /\ die_call' = [die_call EXCEPT
                        !.unique = <<unique_symbols(die_call.ret[1])>>]
    /\ UNCHANGED <<rollVars, counterVars, cartVars, symbol_calls>>

NextDie ==
    \/ \E sides \in SideLists : DieNew(sides)
    \/ \E name \in DOMAIN standard : StandardDie(name)
    \/ UniqueSymbols

SpecDie == Init /\ [][NextDie]_vars

----------------------------------------------------------------------------
(* C16                                                                     *)

\* C16: Die::new returns Err for a list of 0 or 1 sides and Ok with a Die of
\* those sides for 2 or more, and every Die obtained from Die::new or from
\* the factories d4 .. d20, which do not go through Die::new, has at least 2
\* sides.
C16_DiceHaveTwoSides ==
    /\ die_call.op = "new" =>
            /\ Len(die_call.sides) < 2 =>
                    (die_call.ret = <<>> /\ die_call.msg /= "")
            /\ Len(die_call.sides) >= 2 =>
                    (die_call.ret = <<die_call.sides>> /\ die_call.msg = "")
    /\ die_call.ret /= <<>> => Len(die_call.ret[1]) >= 2

\* Die::new was called with a single side
C16_Witness ==
    /\ die_call.op = "new"
    /\ Len(die_call.sides) = 1
    /\ die_call.ret = <<>>

----------------------------------------------------------------------------
(* C17                                                                     *)

\* the N of each factory dN
FacesOf == [d4 |-> 4, d6 |-> 6, d8 |-> 8, d10 |-> 10, d12 |-> 12, d20 |-> 20]

\* C17: the die of each factory dN has exactly N sides, its side i (from 0)
\* carries exactly i + 1 symbols, all of them Pip, and unique_symbols() of
\* it has exactly one element.
C17_StandardDiceCountPips ==
    die_call.op \in DOMAIN FacesOf =>
        /\ die_call.ret /= <<>>
        /\ LET sides == die_call.ret[1]
           IN  /\ Len(sides) = FacesOf[die_call.op]
               /\ \A i \in 0..(Len(sides) - 1) :
                    /\ Len(sides[i + 1]) = i + 1
                    /\ \A p \in 1..(i + 1) : sides[i + 1][p] = "Pip"
        /\ die_call.unique /= <<>> => Len(die_call.unique[1]) = 1

\* d20() was called and unique_symbols() asked of its die
C17_Witness ==
    /\ die_call.op = "d20"
    /\ Len(die_call.ret[1]) = 20
    /\ die_call.unique = << <<"Pip">> >>

----------------------------------------------------------------------------
(* C18                                                                     *)

\* the dice in the order that puts a higher score first and, of two dice
\* with the same score, the earlier one first if ties_keep_order and the
\* later one first otherwise
DiceByScore(filtered, ties_keep_order) ==
    CHOOSE perm \in [1..Len(filtered) -> 1..Len(filtered)] :
        \A p, q \in 1..Len(filtered) :
            p < q =>
                \/ Len(filtered[perm[p]]) > Len(filtered[perm[q]])
                \/ /\ Len(filtered[perm[p]]) = Len(filtered[perm[q]])
                   /\ IF ties_keep_order
                      THEN perm[p] < perm[q]
                      ELSE perm[p] > perm[q]

\* the filtered sides in that order
SidesByScore(filtered, ties_keep_order) ==
    LET perm == DiceByScore(filtered, ties_keep_order)
    IN  [p \in 1..Len(filtered) |-> filtered[perm[p]]]

\* the joint rolls of two dice whose filtered sides have the same score and
\* differ
TiedRolls ==
    {r \in JointRolls(dice) :
        LET f == filter_sides(RolledSides(dice, r), policy)
        IN  Len(f[1]) = Len(f[2]) /\ f[1] /= f[2]}

\* new was called on two dice under take_highest_n_of(1)
HighestOneOfTwo ==
    /\ call.op = "new"
    /\ Len(dice) = 2
    /\ policy.coll_type = "TakeHighestN"
    /\ policy.n = 1

\* C18 as claimed: collect_symbols ranks the sides by score descending and
\* sides with equal score keep their per-die input order, so that under
\* take_highest_n_of(1) on two dice whose rolled sides tie with different
\* relevant symbols, the side of the earlier die (index 0) is collected.
C18_TiesKeepInputOrder ==
    /\ (call.op = "new" /\ Len(dice) > 0) =>
            \A r \in JointRolls(dice) :
                LET f == filter_sides(RolledSides(dice, r), policy)
                IN  rank_sides(f) = SidesByScore(f, TRUE)
    /\ HighestOneOfTwo =>
            \A r \in TiedRolls :
                collect_symbols(RolledSides(dice, r), policy, TRUE).symbols
                    = filter_sides(RolledSides(dice, r), policy)[1]

\* C18 amended: collect_symbols ranks the sides by score descending and
\* sides with equal score come in the reverse of their per-die input order
\* (the stable ascending sort is followed by a reverse), so that under
\* take_highest_n_of(1) on two dice whose rolled sides tie with different
\* relevant symbols, the side of the later die (index 1) is collected.
C18_TiesReverseInputOrder ==
    /\ (call.op = "new" /\ Len(dice) > 0) =>
            \A r \in JointRolls(dice) :
                LET f == filter_sides(RolledSides(dice, r), policy)
                IN  rank_sides(f) = SidesByScore(f, FALSE)
    /\ HighestOneOfTwo =>
            \A r \in TiedRolls :
                collect_symbols(RolledSides(dice, r), policy, TRUE).symbols
                    = filter_sides(RolledSides(dice, r), policy)[2]

\* two custom dice under take_highest_n_of(1) of A and B: the roll of side
\* [A] on the first and side [B] on the second is a tie, and [B] is collected
C18_Witness ==
    /\ HighestOneOfTwo
    /\ dice = <<custom_d4, custom_d4>>
    /\ policy.symbols = <<"A", "B">>
    /\ ret.kind = "Ok"
    /\ (1 :> 1 @@ 2 :> 2) \in TiedRolls
    /\ collect_symbols(<<custom_d4[1], custom_d4[2]>>, policy, TRUE).symbols
            = <<"B">>

----------------------------------------------------------------------------
(* C19                                                                     *)

\* the pool with every symbol outside the set taken off its sides
WithoutOthers(ds, symbols) ==
    [i \in DOMAIN ds |->
        [j \in DOMAIN ds[i] |->
            SelectSeq(ds[i][j], LAMBDA y : y \in symbols)]]

\* C19: under every kind of policy, every symbol of every outcome key of the
\* table belongs to the policy's relevant symbols, and the score a side is
\* ranked by counts the symbols of that set only; the symbols outside it
\* have no influence: the pool without them gives the same table.
C19_OnlyRelevantSymbolsCount ==
    (call.op = "new" /\ Len(dice) > 0) =>
        LET P == Range(policy.symbols)
        IN  /\ HasTable =>
                    \A key \in DOMAIN table[1].occurrences :
                        DOMAIN key.symbols \subseteq P
            /\ \A r \in JointRolls(dice) : \A i \in DOMAIN dice :
                    Len(filter_sides(RolledSides(dice, r), policy)[i])
                        = Score(dice[i][r[i]], P)
            /\ ValidPolicy(dice, policy) =>
                    table = TableOf(WithoutOthers(dice, P), policy)

\* a table of two dice with sides carrying B, built under a policy that
\* keeps the highest side by A only
C19_Witness ==
    /\ call.op = "new"
    /\ dice = <<custom_d4, custom_d4>>
    /\ policy = take_highest_n_of(1, <<"A">>)
    /\ HasTable
    /\ \E key \in DOMAIN table[1].occurrences : DOMAIN key.symbols = {"A"}

----------------------------------------------------------------------------
(* C20                                                                     *)

\* get_count gives the same for every item on both counters
CountsAgree == \A item \in Items :
    get_count(counters["a"], item) = get_count(counters["b"], item)

\* C20 as claimed: after any calls of add and add_amount, add_amount(item, 0)
\* on an item not yet present among them, two ItemCounters are equal (==,
\* the derived comparison of their maps) exactly when get_count agrees on
\* every item.
C20_EqualIffCountsAgree ==
    (counters["a"] = counters["b"]) <=> CountsAgree

----------------------------------------------------------------------------
(* C21                                                                     *)

\* the sum of the amounts of the calls received for the items of the set
AmountAdded(h, items) ==
    SumOver([i \in DOMAIN h |-> h[i].amount],
            {i \in DOMAIN h : h[i].item \in items})

\* C21: after any calls of add and add_amount on a new ItemCounter,
\* get_count(x) is the sum of the amounts added for x (1 per add, 0 for an
\* item never added), so that a call leaves the counts of the other items as
\* they were, and total_count() is the sum of all amounts added.
C21_CountsAreSumsOfAmounts ==
    \A w \in {"a", "b"} :
        /\ \A x \in Items :
                get_count(counters[w], x) = AmountAdded(ops[w], {x})
        /\ total_count(counters[w]) = AmountAdded(ops[w], Items)

\* counter a received add("A") twice and nothing for "B"
C21_Witness ==
    /\ ops["a"] = <<[item |-> "A", amount |-> 1], [item |-> "A", amount |-> 1]>>
    /\ get_count(counters["a"], "A") = 2
    /\ get_count(counters["a"], "B") = 0
    /\ total_count(counters["a"]) = 2

----------------------------------------------------------------------------
(* C22                                                                     *)

\* some call of next() has returned None
ReturnedNone == \E k \in 1..Len(yielded) : yielded[k].kind = "None"

\* C22: next() returns None for the first time when the increment has
\* carried past the last sequence (is_complete is set), and once it has
\* returned None every later call returns None and leaves the iterator as it
\* was: the enumeration never starts again from the first tuple.
C22_ExhaustedStaysExhausted ==
    /\ [](ReturnedNone => (cart /= <<>> /\ cart[1].is_complete))
    /\ [][ReturnedNone =>
            (cart' = cart /\ yielded' = Append(yielded, None))]_vars

\* next() has returned None twice in a row after the tuples of two sequences
C22_Witness ==
    /\ cart /= <<>>
    /\ Len(cart[1].sets) = 2
    /\ Len(yielded) >= 3
    /\ yielded[Len(yielded) - 2].kind = "Some"
    /\ yielded[Len(yielded) - 1].kind = "None"
    /\ yielded[Len(yielded)].kind = "None"

----------------------------------------------------------------------------
(* C23                                                                     *)

\* C23 as claimed: when one of the sequences handed to new is empty, next()
\* yields no tuple and signals exhaustion: every call returns None, none
\* faults on an index out of bounds or a modulo by zero.
C23_EmptySequenceIsSafe ==
    (cart /= <<>> /\ \E i \in 1..Len(cart[1].sets) : cart[1].sets[i] = <<>>)
        => \A k \in 1..Len(yielded) : yielded[k].kind = "None"

----------------------------------------------------------------------------
(* C24                                                                     *)

\* the joint roll number k (from 0) when the side of die 0 varies fastest
RollAt(ds, k) ==
    [i \in DOMAIN ds |->
        ds[i][((k \div LenProduct(ds, i - 1)) % Len(ds[i])) + 1]]

\* the occurrences after the joint rolls numbered ks[lo] .. ks[hi] have been
\* counted into occur, in that order
RECURSIVE CountRange(_, _, _, _, _, _)
CountRange(occur, ds, pol, ks, lo, hi) ==
    IF lo > hi THEN occur
    ELSE IF lo = hi THEN count_roll(occur, RollAt(ds, ks[lo]), pol, TRUE)
    ELSE LET mid == (lo + hi) \div 2
             left == CountRange(occur, ds, pol, ks, lo, mid)
         IN  IF left.panic THEN left
             ELSE CountRange(left, ds, pol, ks, mid + 1, hi)

\* the table of the joint rolls numbered by the sequence, counted in its order
PartialTable(ds, pol, ks) ==
    CountRange([panic |-> FALSE, map |-> HashMap_new], ds, pol, ks,
               1, Len(ks)).map

\* the key-wise sum of two tables
Merge(m1, m2) ==
    [key \in (DOMAIN m1) \cup (DOMAIN m2) |->
        (IF key \in DOMAIN m1 THEN m1[key] ELSE 0)
        + (IF key \in DOMAIN m2 THEN m2[key] ELSE 0)]

\* the key-wise sum of the tables of the blocks of a partition
MergedTable(ds, pol, blocks) ==
    LET all == [i \in 1..SideProduct(ds) |-> i - 1]
        part[b \in 1..Len(blocks)] ==
            PartialTable(ds, pol, SelectSeq(all, LAMBDA k : k \in blocks[b]))
        sum[b \in 0..Len(blocks)] ==
            IF b = 0 THEN HashMap_new ELSE Merge(sum[b - 1], part[b])
    IN  sum[Len(blocks)]

\* partitions of the joint rolls: the two halves of the enumeration, one
\* block per side of die 0, and for a single die every split in two blocks
Partitions(ds) ==
    LET n == SideProduct(ds)
        all == 0..(n - 1)
    IN  {<<{k \in all : k < n \div 2}, {k \in all : k >= n \div 2}>>}
        \cup {[j \in 1..Len(ds[1]) |->
                {k \in all : k % Len(ds[1]) = j - 1}]}
        \cup (IF Len(ds) = 1
              THEN {<<S, all \ S>> : S \in SUBSET all}
              ELSE {})

\* C24: the table new builds does not depend on the order in which the joint
\* rolls are counted: counting them with die 0 varying fastest, or in the
\* reverse of that order, gives the occurrences new gets with the last die
\* varying fastest, and so does the key-wise sum of the tables of the blocks
\* of a partition of the joint rolls; the counts add up to the same total.
C24_OrderOfRollsIsIrrelevant ==
    (call.op = "new" /\ Len(dice) > 0 /\ ValidPolicy(dice, policy)) =>
        /\ HasTable
        /\ LET t == table[1]
               all == [i \in 1..SideProduct(dice) |-> i - 1]
           IN  /\ PartialTable(dice, policy, all) = t.occurrences
               /\ PartialTable(dice, policy, Reverse(all)) = t.occurrences
               /\ \A blocks \in Partitions(dice) :
                    /\ MergedTable(dice, policy, blocks) = t.occurrences
                    /\ SumFn(MergedTable(dice, policy, blocks)) = t.total

\* a table of two different dice under keep-highest-1, which the rolls give
\* in the other order as well
C24_Witness ==
    /\ call.op = "new"
    /\ dice = <<d4, custom_d4>>
    /\ policy = take_highest_n_of(1, <<"A", "B">>)
    /\ HasTable
    /\ PartialTable(dice, policy, [i \in 1..SideProduct(dice) |-> i - 1])
            = table[1].occurrences
    /\ RollAt(dice, 1) /= <<dice[1][1], dice[2][2]>>

----------------------------------------------------------------------------
(* C25                                                                     *)

\* C25: for two tables built by new, the total wins + ties + losses of
\* a.roll_against(b) is a.total * b.total, the number of pairs of joint
\* rolls; so it is not 0, and win_odds, tie_odds and loss_odds are three
\* fractions of it that add up to 1 (brought to the denominator total).
C25_ComparisonCountsEveryPair ==
    call.op = "roll_against" =>
        LET a == table[1]
            b == call.other[1]
            c == ret.value[1]
            w == win_odds(c)
            t == tie_odds(c)
            l == loss_odds(c)
        IN  /\ c.wins + c.ties + c.losses = a.total * b.total
            /\ c.total = a.total * b.total
            /\ c.total > 0
            /\ \A q \in {w, t, l} : q.den > 0 /\ c.total % q.den = 0
            /\ w.num * (c.total \div w.den) + t.num * (c.total \div t.den)
                    + l.num * (c.total \div l.den)
                = c.total

\* two dice rolled against another table: 16 joint rolls against 4
C25_Witness ==
    /\ call.op = "roll_against"
    /\ Len(dice) = 2
    /\ table[1].total = 16
    /\ call.other[1].total = 4
    /\ ret.value[1].total = 64

----------------------------------------------------------------------------
(* C26                                                                     *)

\* C26: swapping the operands of roll_against swaps wins and losses and
\* keeps the ties: a.roll_against(b) has the wins that b.roll_against(a) has
\* as losses, its losses as wins, and the same ties.
C26_SwappingOperandsSwapsWinsAndLosses ==
    call.op = "roll_against" =>
        LET c == ret.value[1]
            back == roll_against(call.other[1], table[1])
        IN  /\ c.wins = back.losses
            /\ c.losses = back.wins
            /\ c.ties = back.ties
            /\ c.total = back.total

\* a comparison of two different tables with more wins than losses and ties
C26_Witness ==
    /\ call.op = "roll_against"
    /\ call.other[1] /= table[1]
    /\ ret.value[1].wins > ret.value[1].losses
    /\ ret.value[1].losses > 0
    /\ ret.value[1].ties > 0
    /\ roll_against(call.other[1], table[1]).losses = ret.value[1].wins

----------------------------------------------------------------------------
(* C27                                                                     *)

\* the ways to reorder n dice
Orderings(n) ==
    {perm \in [1..n -> 1..n] :
        \A i, j \in 1..n : perm[i] = perm[j] => i = j}

\* the pool with its dice in another order
Reordered(ds, perm) == [i \in DOMAIN ds |-> ds[perm[i]]]

\* some joint roll shows two dice whose sides, reduced to the policy's
\* symbols, have the same score and differ
HasTieOfDifferentSides(ds, pol) ==
    \E r \in JointRolls(ds) :
        LET f == filter_sides(RolledSides(ds, r), pol)
        IN  \E i, j \in DOMAIN ds :
                i < j /\ Len(f[i]) = Len(f[j]) /\ f[i] /= f[j]

\* C27: under collect_all the table is the same for every order of the dice
\* in the pool (same keys, counts and total); under a keep/drop policy the
\* order of the dice matters through the ranking of equally scored sides
\* only: where no joint roll ties two different sides, every order of the
\* dice gives the same table.
C27_CollectAllIgnoresDiceOrder ==
    (/\ call.op = "new"
     /\ Len(dice) > 0
     /\ ValidPolicy(dice, policy)
     /\ \/ policy.coll_type = "CollectAll"
        \/ ~HasTieOfDifferentSides(dice, policy))
    => \A perm \in Orderings(Len(dice)) :
            TableOf(Reordered(dice, perm), policy) = table

\* the table of a standard and a custom die under collect_all of Pip and A
\* is the table of the custom and the standard die
C27_Witness ==
    /\ call.op = "new"
    /\ dice = <<d4, custom_d4>>
    /\ policy = collect_all(<<pip, "A">>)
    /\ HasTable
    /\ Cardinality(DOMAIN table[1].occurrences) > 1
    /\ TableOf(<<custom_d4, d4>>, policy) = table

----------------------------------------------------------------------------
(* C28                                                                     *)

\* C28: for a pool of D dice and N > D the kinds that keep or drop the
\* highest sides do not fault: take_highest_n_of(N) builds the table of
\* collect_all, and remove_highest_n_of(N) builds the table whose only key is
\* the empty multiset, counted once per joint roll.  Only take_lowest_n_of(N)
\* and remove_lowest_n_of(N) evaluate sides_len - n with n > sides_len: new
\* faults for no other policy, and for these two the build with overflow
\* checks does.
C28_HighestKindsTolerateOversizedN ==
    (call.op = "new" /\ Len(dice) > 0) =>
        /\ (policy.coll_type = "TakeHighestN" /\ policy.n > Len(dice)) =>
                /\ ret.kind = "Ok"
                /\ table = TableOf(dice, collect_all(policy.symbols))
        /\ (policy.coll_type = "RemoveHighestN" /\ policy.n > Len(dice)) =>
                /\ ret.kind = "Ok"
                /\ table[1].occurrences =
                        (RollResultPossibility_new :> SideProduct(dice))
                /\ table[1].total = SideProduct(dice)
        /\ ret.kind = "Panic" =>
                /\ policy.coll_type \in {"TakeLowestN", "RemoveLowestN"}
                /\ policy.n > Len(dice)
        /\ (/\ policy.coll_type \in {"TakeLowestN", "RemoveLowestN"}
            /\ policy.n > Len(dice)) =>
                RollProbabilities_new(dice, policy, TRUE).kind = "Panic"

\* two dice under remove_highest_n_of(3): all 16 joint rolls under the empty
\* key
C28_Witness ==
    /\ call.op = "new"
    /\ Len(dice) = 2
    /\ policy.coll_type = "RemoveHighestN"
    /\ policy.n = 3
    /\ ret.kind = "Ok"
    /\ table[1].occurrences = (RollResultPossibility_new :> 16)

----------------------------------------------------------------------------
(* C29                                                                     *)

\* C29: a symbol listed twice in a target is counted twice: on every table,
\* get_odds of exactly_n_of(2k, [s, s]) is get_odds of exactly_n_of(k, [s]).
C29_ListedTwiceCountsTwice ==
    (call.op = "get_odds" /\ Len(call.targets) = 1) =>
        LET t == call.targets[1]
        IN  (/\ t.target_type = "Exactly"
             /\ Len(t.symbols) = 2
             /\ t.symbols[1] = t.symbols[2]
             /\ t.amount % 2 = 0) =>
                ret.value[1] =
                    get_odds(table[1],
                             <<exactly_n_of(t.amount \div 2,
                                            <<t.symbols[1]>>)>>)

\* exactly 2 of [Pip, Pip] on a table where exactly one pip is possible and
\* exactly two pips has other odds
C29_Witness ==
    /\ call.op = "get_odds"
    /\ call.targets = <<exactly_n_of(2, <<pip, pip>>)>>
    /\ table[1].total > 0
    /\ ret.value[1] /= f64_zero
    /\ ret.value[1] /= get_odds(table[1], <<exactly_n_of(2, <<pip>>)>>)

----------------------------------------------------------------------------
(* C30                                                                     *)

\* C30: on every table that new has built, get_odds of the empty target list
\* is exactly 1.0, and so is get_odds of the single target
\* at_least_n_of(0, S): every outcome satisfies an empty conjunction and every
\* count is at least 0.
C30_NoConstraintHasOddsOne ==
    (call.op = "get_odds"
        /\ \/ call.targets = <<>>
           \/ /\ Len(call.targets) = 1
              /\ call.targets[1].target_type = "AtLeast"
              /\ call.targets[1].amount = 0) =>
        /\ table[1].total > 0
        /\ ret.value[1] = f64_div(1, 1)

\* the empty target list asked of a table with several outcomes of different
\* counts
C30_Witness ==
    /\ call.op = "get_odds"
    /\ call.targets = <<>>
    /\ Cardinality(DOMAIN table[1].occurrences) > 1
    /\ \E x \in DOMAIN table[1].occurrences : table[1].occurrences[x] > 1
    /\ ret.value[1] = f64_div(1, 1)

\* at least 0 of a symbol asked of such a table
C30_WitnessAtLeastZero ==
    /\ call.op = "get_odds"
    /\ call.targets = <<at_least_n_of(0, <<"A">>)>>
    /\ Cardinality(DOMAIN table[1].occurrences) > 1
    /\ ret.value[1] = f64_div(1, 1)

====
